---- MODULE Spec2Model ----
(***************************************************************************)
(* docker-container-utils: the image reference parser (DockerContainer)    *)
(* and the three-stage load / tag / push pipeline (process_images).        *)
(*                                                                         *)
(* A Python str is a sequence of one-character strings.                    *)
(***************************************************************************)
EXTENDS Integers, Sequences, FiniteSets, TLC

\* ------------------------------------------------------------------ bounds
\* longest raw reference string handed to the parser
MaxLen == 8
\* largest batch handed to process_images
MaxImages == 3

\* characters the raw reference strings are drawn from
Chars == {"a", ".", "/", ":"}

\* ------------------------------------------------------ str / list helpers
Contains(s, c) == \E i \in 1..Len(s) : s[i] = c

\* str.split(sep) with an explicit one-character separator
RECURSIVE split(_, _)
split(s, sep) ==
    IF ~Contains(s, sep)
    THEN <<s>>
    ELSE LET i == CHOOSE i \in 1..Len(s) :
                      s[i] = sep /\ \A j \in 1..(i - 1) : s[j] # sep
         IN  <<SubSeq(s, 1, i - 1)>> \o split(SubSeq(s, i + 1, Len(s)), sep)

\* sep.join(parts)
RECURSIVE join(_, _)
join(parts, sep) ==
    IF parts = <<>> THEN <<>>
    ELSE IF Len(parts) = 1 THEN parts[1]
    ELSE parts[1] \o <<sep>> \o join(Tail(parts), sep)

\* ------------------------------------------------- docker_container.py
DEFAULT_HOSTNAME == <<"d", "o", "c", "k", "e", "r", ".", "i", "o">>

\* raise ValueError("Invalid docker image path")
ValueErrorMessage ==
    <<"I", "n", "v", "a", "l", "i", "d", " ", "d", "o", "c", "k", "e", "r",
      " ", "i", "m", "a", "g", "e", " ", "p", "a", "t", "h">>

\* the literal part of f"Failed to parse container info: {e}"
ParsingErrorPrefix ==
    <<"F", "a", "i", "l", "e", "d", " ", "t", "o", " ", "p", "a", "r", "s",
      "e", " ", "c", "o", "n", "t", "a", "i", "n", "e", "r", " ", "i", "n",
      "f", "o", ":", " ">>

\* the attributes of an object that was never constructed
NoInfo == [hostname |-> <<>>, path |-> <<>>, container_name |-> <<>>, tag |-> <<>>]

\* slip: the hostname component is left in the path
ParseHostnameKeepsHost(components) ==
    IF Contains(components[1], ".")
    THEN <<components[1], join(SubSeq(components, 1, Len(components) - 1), "/")>>
    ELSE <<DEFAULT_HOSTNAME, join(SubSeq(components, 1, Len(components) - 1), "/")>>

\* if "." in components[0]: (components[0], "/".join(components[1:-1]))
\* else: (DEFAULT_HOSTNAME, "/".join(components[:-1]))
_parse_hostname_and_path(components) ==
    IF Contains(components[1], ".")
    THEN <<components[1], join(SubSeq(components, 2, Len(components) - 1), "/")>>
    ELSE <<DEFAULT_HOSTNAME, join(SubSeq(components, 1, Len(components) - 1), "/")>>

\* slip: only a missing colon is rejected
ParseNameAtLeastTwo(container_name_with_tag) ==
    LET name_array == split(container_name_with_tag, ":")
    IN  IF Len(name_array) < 2
        THEN [raised |-> "ValueError", value |-> <<>>, message |-> ValueErrorMessage]
        ELSE [raised |-> "none", value |-> name_array, message |-> <<>>]

\* split on ":"; anything but two parts raises ValueError
_parse_name_and_tag(container_name_with_tag) ==
    LET name_array == split(container_name_with_tag, ":")
    IN  IF Len(name_array) # 2
        THEN [raised |-> "ValueError", value |-> <<>>, message |-> ValueErrorMessage]
        ELSE [raised |-> "none", value |-> name_array, message |-> <<>>]

\* the try block of extract_container_info; ValueError becomes ParsingError
extract_container_info(raw_container_name_string) ==
    LET components == split(raw_container_name_string, "/")
        hp == _parse_hostname_and_path(components)
        nt == _parse_name_and_tag(components[Len(components)])
    IN  IF nt.raised = "ValueError"
        THEN [raised |-> "ParsingError", info |-> NoInfo,
              message |-> ParsingErrorPrefix \o nt.message]
        ELSE [raised |-> "none", message |-> <<>>,
              info |-> [hostname |-> hp[1], path |-> hp[2],
                        container_name |-> nt.value[1], tag |-> nt.value[2]]]

\* DockerContainer.__init__: the object's attributes, or the exception raised
DockerContainer(raw_container_name_string) ==
    LET r == extract_container_info(raw_container_name_string)
    IN  IF r.raised # "none"
        THEN [raised |-> r.raised, message |-> r.message,
              hostname |-> <<>>, path |-> <<>>, container_name |-> <<>>, tag |-> <<>>]
        ELSE [raised |-> "none", message |-> <<>>,
              hostname |-> r.info.hostname, path |-> r.info.path,
              container_name |-> r.info.container_name, tag |-> r.info.tag]

\* slip: the path is left out of the rendered name
FullNameDropsPath(self) ==
    self.hostname \o <<"/">> \o self.container_name \o <<":">> \o self.tag

\* the full_name property
full_name(self) ==
    IF self.path = <<>>
    THEN self.hostname \o <<"/">> \o self.container_name \o <<":">> \o self.tag
    ELSE self.hostname \o <<"/">> \o self.path \o <<"/">>
             \o self.container_name \o <<":">> \o self.tag

\* ------------------------------------------- retag_and_push_from_dir.py
\* what extract_container_info_from_image_file can hand back for an archive:
\* a reference that parses and one that does not
ImageRefs == {<<"a", ":", "a">>, <<"a">>}
\* the --new_tag and --destination_path arguments
NewTags == {<<"a">>}
DestinationPaths == {<<"a", ".", "a">>}

\* the worker threads, in the order of the threads list
threads == <<"load", "tag", "push">>

\* the poison pill, in the shape of each queue's elements
None == 0
NoneItem == [image_path |-> 0, image_details |-> <<>>]
NoneTag == [image_path |-> 0, new_image_tag |-> <<>>]

VARIABLES
    \* process_images arguments
    images, new_tag, destination_path,
    \* the three queue.Queue objects and their unfinished_tasks counters
    image_queue, tag_queue, push_queue, unfinished_tasks,
    \* position of the driver and of each worker thread; driver loop index
    pc, k,
    \* the value each worker holds after its get()
    image_path, item, image_tag,
    \* history: items each docker action was invoked for, items dropped per
    \* stage, poison pills put on each queue
    loadLog, tagLog, pushLog, dropped, sentinels,
    \* the parser exercised on its own
    raw, container, rendered, reparsed, ppc

pipeVars == <<images, new_tag, destination_path, image_queue, tag_queue, push_queue,
              unfinished_tasks, pc, k, image_path, item, image_tag,
              loadLog, tagLog, pushLog, dropped, sentinels>>
parserVars == <<raw, container, rendered, reparsed, ppc>>
vars == <<pipeVars, parserVars>>

Batches == {[j \in 1..n |-> j] : n \in 0..MaxImages}

\* process_images has built the queues and the (unstarted) threads
PipeInit ==
    /\ images \in Batches
    /\ new_tag \in NewTags
    /\ destination_path \in DestinationPaths
    /\ image_queue = <<>> /\ tag_queue = <<>> /\ push_queue = <<>>
    /\ unfinished_tasks = [q \in {"image", "tag", "push"} |-> 0]
    /\ pc = [main |-> "start", load |-> "unstarted", tag |-> "unstarted",
             push |-> "unstarted"]
    /\ k = 1
    /\ image_path = None /\ item = NoneItem /\ image_tag = NoneTag
    /\ loadLog = <<>> /\ tagLog = <<>> /\ pushLog = <<>>
    /\ dropped = [s \in {"load", "parse", "tag", "push"} |-> {}]
    /\ sentinels = [q \in {"image", "tag", "push"} |-> 0]

ParserIdle ==
    /\ raw = <<>> /\ container = DockerContainer(<<>>) /\ rendered = <<>>
    /\ reparsed = DockerContainer(<<>>)
    /\ ppc = "idle"

Init == PipeInit /\ ParserIdle

\* ---------------------------------------------------------- process_images
\* for thread in threads: thread.start()
Start ==
    /\ pc.main = "start"
    /\ pc' = [pc EXCEPT ![threads[k]] = "get",
                        !.main = IF k < Len(threads) THEN "start"
                                 ELSE IF Len(images) = 0 THEN "put_none" ELSE "put"]
    /\ k' = IF k < Len(threads) THEN k + 1 ELSE 1
    /\ UNCHANGED <<images, new_tag, destination_path, image_queue, tag_queue,
                   push_queue, unfinished_tasks, image_path, item, image_tag,
                   loadLog, tagLog, pushLog, dropped, sentinels, parserVars>>

\* for image in images: image_queue.put(image)
Put ==
    /\ pc.main = "put"
    /\ image_queue' = Append(image_queue, images[k])
    /\ unfinished_tasks' = [unfinished_tasks EXCEPT !.image = @ + 1]
    /\ pc' = [pc EXCEPT !.main = IF k < Len(images) THEN "put" ELSE "put_none"]
    /\ k' = IF k < Len(images) THEN k + 1 ELSE 1
    /\ UNCHANGED <<images, new_tag, destination_path, tag_queue, push_queue,
                   image_path, item, image_tag,
                   loadLog, tagLog, pushLog, dropped, sentinels, parserVars>>

\* slip: the shutdown signal is put at the front of the load channel
PutNoneFirst ==
    /\ pc.main = "put_none"
    /\ image_queue' = <<None>> \o image_queue
    /\ unfinished_tasks' = [unfinished_tasks EXCEPT !.image = @ + 1]
    /\ sentinels' = [sentinels EXCEPT !.image = @ + 1]
    /\ pc' = [pc EXCEPT !.main = "join"]
    /\ k' = 1
    /\ UNCHANGED <<images, new_tag, destination_path, tag_queue, push_queue,
                   image_path, item, image_tag,
                   loadLog, tagLog, pushLog, dropped, parserVars>>

\* image_queue.put(None)
PutNone ==
    /\ pc.main = "put_none"
    /\ image_queue' = Append(image_queue, None)
    /\ unfinished_tasks' = [unfinished_tasks EXCEPT !.image = @ + 1]
    /\ sentinels' = [sentinels EXCEPT !.image = @ + 1]
    /\ pc' = [pc EXCEPT !.main = "join"]
    /\ k' = 1
    /\ UNCHANGED <<images, new_tag, destination_path, tag_queue, push_queue,
                   image_path, item, image_tag,
                   loadLog, tagLog, pushLog, dropped, parserVars>>

\* a thread has ended when its target returned or raised
Ended(t) == pc[t] \in {"done", "crashed"}

\* slip: the driver walks the threads list without waiting on any thread
JoinNoWait ==
    /\ pc.main = "join"
    /\ pc' = [pc EXCEPT !.main = IF k < Len(threads) THEN "join" ELSE "returned"]
    /\ k' = IF k < Len(threads) THEN k + 1 ELSE k
    /\ UNCHANGED <<images, new_tag, destination_path, image_queue, tag_queue,
                   push_queue, unfinished_tasks, image_path, item, image_tag,
                   loadLog, tagLog, pushLog, dropped, sentinels, parserVars>>

\* for thread in threads: thread.join()
Join ==
    /\ pc.main = "join"
    /\ Ended(threads[k])
    /\ pc' = [pc EXCEPT !.main = IF k < Len(threads) THEN "join" ELSE "returned"]
    /\ k' = IF k < Len(threads) THEN k + 1 ELSE k
    /\ UNCHANGED <<images, new_tag, destination_path, image_queue, tag_queue,
                   push_queue, unfinished_tasks, image_path, item, image_tag,
                   loadLog, tagLog, pushLog, dropped, sentinels, parserVars>>

Driver == Start \/ Put \/ PutNone \/ Join

\* the only exception type the workers' except clauses name
Handled(exc) == exc = "CalledProcessError"

\* ------------------------------------------------------- load_docker_image
\* image_path = image_queue.get()
LoadGet ==
    /\ pc.load = "get"
    /\ image_queue # <<>>
    /\ image_path' = Head(image_queue)
    /\ image_queue' = Tail(image_queue)
    /\ pc' = [pc EXCEPT !.load = IF Head(image_queue) = None THEN "sentinel" ELSE "run"]
    /\ UNCHANGED <<images, new_tag, destination_path, tag_queue, push_queue,
                   unfinished_tasks, k, item, image_tag,
                   loadLog, tagLog, pushLog, dropped, sentinels, parserVars>>

\* if image_path is None: tag_queue.put(None); break
LoadSentinel ==
    /\ pc.load = "sentinel"
    /\ tag_queue' = Append(tag_queue, NoneItem)
    /\ unfinished_tasks' = [unfinished_tasks EXCEPT !.tag = @ + 1]
    /\ sentinels' = [sentinels EXCEPT !.tag = @ + 1]
    /\ pc' = [pc EXCEPT !.load = "done"]
    /\ UNCHANGED <<images, new_tag, destination_path, image_queue, push_queue,
                   k, image_path, item, image_tag,
                   loadLog, tagLog, pushLog, dropped, parserVars>>

\* slip: the loaded item is put at the front of the tag channel
LoadOkLifo ==
    /\ pc.load = "run"
    /\ \E image_details \in ImageRefs :
           tag_queue' = <<[image_path |-> image_path,
                           image_details |-> image_details]>> \o tag_queue
    /\ loadLog' = Append(loadLog, image_path)
    /\ unfinished_tasks' = [unfinished_tasks EXCEPT !.tag = @ + 1, !.image = @ - 1]
    /\ pc' = [pc EXCEPT !.load = "get"]
    /\ UNCHANGED <<images, new_tag, destination_path, image_queue, push_queue,
                   k, image_path, item, image_tag,
                   tagLog, pushLog, dropped, sentinels, parserVars>>

\* slip: the loaded item is put on the tag channel twice
LoadOkTwice ==
    /\ pc.load = "run"
    /\ \E image_details \in ImageRefs :
           tag_queue' = tag_queue \o
               <<[image_path |-> image_path, image_details |-> image_details],
                 [image_path |-> image_path, image_details |-> image_details]>>
    /\ loadLog' = Append(loadLog, image_path)
    /\ unfinished_tasks' = [unfinished_tasks EXCEPT !.tag = @ + 2, !.image = @ - 1]
    /\ pc' = [pc EXCEPT !.load = "get"]
    /\ UNCHANGED <<images, new_tag, destination_path, image_queue, push_queue,
                   k, image_path, item, image_tag,
                   tagLog, pushLog, dropped, sentinels, parserVars>>

\* docker load succeeds; the reference read from the archive goes downstream
LoadOk ==
    /\ pc.load = "run"
    /\ \E image_details \in ImageRefs :
           tag_queue' = Append(tag_queue, [image_path |-> image_path,
                                           image_details |-> image_details])
    /\ loadLog' = Append(loadLog, image_path)
    /\ unfinished_tasks' = [unfinished_tasks EXCEPT !.tag = @ + 1, !.image = @ - 1]
    /\ pc' = [pc EXCEPT !.load = "get"]
    /\ UNCHANGED <<images, new_tag, destination_path, image_queue, push_queue,
                   k, image_path, item, image_tag,
                   tagLog, pushLog, dropped, sentinels, parserVars>>

\* slip: a failed load is put back on the load channel for another attempt
LoadFailRetry ==
    /\ pc.load = "run"
    /\ image_queue' = Append(image_queue, image_path)
    /\ loadLog' = Append(loadLog, image_path)
    /\ dropped' = [dropped EXCEPT !.load = @ \cup {image_path}]
    /\ unfinished_tasks' = [unfinished_tasks EXCEPT !.image = @]
    /\ pc' = [pc EXCEPT !.load = "get"]
    /\ UNCHANGED <<images, new_tag, destination_path, tag_queue, push_queue,
                   k, image_path, item, image_tag,
                   tagLog, pushLog, sentinels, parserVars>>

\* slip: the put sits in the finally block, so a failed load goes downstream
LoadFailForwards ==
    /\ pc.load = "run"
    /\ \E image_details \in ImageRefs :
           tag_queue' = Append(tag_queue, [image_path |-> image_path,
                                           image_details |-> image_details])
    /\ loadLog' = Append(loadLog, image_path)
    /\ dropped' = [dropped EXCEPT !.load = @ \cup {image_path}]
    /\ unfinished_tasks' = [unfinished_tasks EXCEPT !.tag = @ + 1, !.image = @ - 1]
    /\ pc' = [pc EXCEPT !.load = "get"]
    /\ UNCHANGED <<images, new_tag, destination_path, image_queue, push_queue,
                   k, image_path, item, image_tag,
                   tagLog, pushLog, sentinels, parserVars>>

\* docker load raises CalledProcessError: message printed, item dropped
LoadFail ==
    /\ pc.load = "run"
    /\ loadLog' = Append(loadLog, image_path)
    /\ dropped' = [dropped EXCEPT !.load = @ \cup {image_path}]
    /\ unfinished_tasks' = [unfinished_tasks EXCEPT !.image = @ - 1]
    /\ pc' = [pc EXCEPT !.load = IF Handled("CalledProcessError") THEN "get" ELSE "crashed"]
    /\ UNCHANGED <<images, new_tag, destination_path, image_queue, tag_queue, push_queue,
                   k, image_path, item, image_tag,
                   tagLog, pushLog, sentinels, parserVars>>

LoadWorker == LoadGet \/ LoadSentinel \/ LoadOk \/ LoadFail

\* -------------------------------------------------------- tag_docker_image
\* item = tag_queue.get()
TagGet ==
    /\ pc.tag = "get"
    /\ tag_queue # <<>>
    /\ item' = Head(tag_queue)
    /\ tag_queue' = Tail(tag_queue)
    /\ pc' = [pc EXCEPT !.tag = IF Head(tag_queue) = NoneItem THEN "sentinel" ELSE "run"]
    /\ UNCHANGED <<images, new_tag, destination_path, image_queue, push_queue,
                   unfinished_tasks, k, image_path, image_tag,
                   loadLog, tagLog, pushLog, dropped, sentinels, parserVars>>

\* if item is None: push_queue.put(None); break
TagSentinel ==
    /\ pc.tag = "sentinel"
    /\ push_queue' = Append(push_queue, NoneTag)
    /\ unfinished_tasks' = [unfinished_tasks EXCEPT !.push = @ + 1]
    /\ sentinels' = [sentinels EXCEPT !.push = @ + 1]
    /\ pc' = [pc EXCEPT !.tag = "done"]
    /\ UNCHANGED <<images, new_tag, destination_path, image_queue, tag_queue,
                   k, image_path, item, image_tag,
                   loadLog, tagLog, pushLog, dropped, parserVars>>

\* f"{destination_path}/{imageObj.container_name}:{new_tag}"
NewImageTag(imageObj) ==
    destination_path \o <<"/">> \o imageObj.container_name \o <<":">> \o new_tag

\* DockerContainer(image_details) raises: finally runs, then the exception
\* leaves the loop unless an except clause names it
TagParseError ==
    /\ pc.tag = "run"
    /\ LET imageObj == DockerContainer(item.image_details)
       IN  /\ imageObj.raised # "none"
           /\ pc' = [pc EXCEPT !.tag = IF Handled(imageObj.raised) THEN "get"
                                       ELSE "crashed"]
    /\ dropped' = [dropped EXCEPT !.parse = @ \cup {item.image_path}]
    /\ unfinished_tasks' = [unfinished_tasks EXCEPT !.tag = @ - 1]
    /\ UNCHANGED <<images, new_tag, destination_path, image_queue, tag_queue, push_queue,
                   k, image_path, item, image_tag,
                   loadLog, tagLog, pushLog, sentinels, parserVars>>

\* slip: the new reference is put at the front of the push channel
TagOkLifo ==
    /\ pc.tag = "run"
    /\ LET imageObj == DockerContainer(item.image_details)
       IN  /\ imageObj.raised = "none"
           /\ push_queue' = <<[image_path |-> item.image_path,
                               new_image_tag |-> NewImageTag(imageObj)]>> \o push_queue
    /\ tagLog' = Append(tagLog, item.image_path)
    /\ unfinished_tasks' = [unfinished_tasks EXCEPT !.push = @ + 1, !.tag = @ - 1]
    /\ pc' = [pc EXCEPT !.tag = "get"]
    /\ UNCHANGED <<images, new_tag, destination_path, image_queue, tag_queue,
                   k, image_path, item, image_tag,
                   loadLog, pushLog, dropped, sentinels, parserVars>>

\* docker tag succeeds; the new reference goes downstream
TagOk ==
    /\ pc.tag = "run"
    /\ LET imageObj == DockerContainer(item.image_details)
       IN  /\ imageObj.raised = "none"
           /\ push_queue' = Append(push_queue, [image_path |-> item.image_path,
                                                new_image_tag |-> NewImageTag(imageObj)])
    /\ tagLog' = Append(tagLog, item.image_path)
    /\ unfinished_tasks' = [unfinished_tasks EXCEPT !.push = @ + 1, !.tag = @ - 1]
    /\ pc' = [pc EXCEPT !.tag = "get"]
    /\ UNCHANGED <<images, new_tag, destination_path, image_queue, tag_queue,
                   k, image_path, item, image_tag,
                   loadLog, pushLog, dropped, sentinels, parserVars>>

\* docker tag raises CalledProcessError: message printed, item dropped
TagFail ==
    /\ pc.tag = "run"
    /\ DockerContainer(item.image_details).raised = "none"
    /\ tagLog' = Append(tagLog, item.image_path)
    /\ dropped' = [dropped EXCEPT !.tag = @ \cup {item.image_path}]
    /\ unfinished_tasks' = [unfinished_tasks EXCEPT !.tag = @ - 1]
    /\ pc' = [pc EXCEPT !.tag = IF Handled("CalledProcessError") THEN "get" ELSE "crashed"]
    /\ UNCHANGED <<images, new_tag, destination_path, image_queue, tag_queue, push_queue,
                   k, image_path, item, image_tag,
                   loadLog, pushLog, sentinels, parserVars>>

TagWorker == TagGet \/ TagSentinel \/ TagParseError \/ TagOk \/ TagFail

\* ------------------------------------------------------- push_docker_image
\* image_tag = push_queue.get()
PushGet ==
    /\ pc.push = "get"
    /\ push_queue # <<>>
    /\ image_tag' = Head(push_queue)
    /\ push_queue' = Tail(push_queue)
    /\ pc' = [pc EXCEPT !.push = IF Head(push_queue) = NoneTag THEN "sentinel" ELSE "run"]
    /\ UNCHANGED <<images, new_tag, destination_path, image_queue, tag_queue,
                   unfinished_tasks, k, image_path, item,
                   loadLog, tagLog, pushLog, dropped, sentinels, parserVars>>

\* if image_tag is None: break
PushSentinel ==
    /\ pc.push = "sentinel"
    /\ pc' = [pc EXCEPT !.push = "done"]
    /\ UNCHANGED <<images, new_tag, destination_path, image_queue, tag_queue, push_queue,
                   unfinished_tasks, k, image_path, item, image_tag,
                   loadLog, tagLog, pushLog, dropped, sentinels, parserVars>>

\* docker push succeeds
PushOk ==
    /\ pc.push = "run"
    /\ pushLog' = Append(pushLog, image_tag.image_path)
    /\ unfinished_tasks' = [unfinished_tasks EXCEPT !.push = @ - 1]
    /\ pc' = [pc EXCEPT !.push = "get"]
    /\ UNCHANGED <<images, new_tag, destination_path, image_queue, tag_queue, push_queue,
                   k, image_path, item, image_tag,
                   loadLog, tagLog, dropped, sentinels, parserVars>>

\* docker push raises CalledProcessError: message printed, item dropped
PushFail ==
    /\ pc.push = "run"
    /\ pushLog' = Append(pushLog, image_tag.image_path)
    /\ dropped' = [dropped EXCEPT !.push = @ \cup {image_tag.image_path}]
    /\ unfinished_tasks' = [unfinished_tasks EXCEPT !.push = @ - 1]
    /\ pc' = [pc EXCEPT !.push = IF Handled("CalledProcessError") THEN "get" ELSE "crashed"]
    /\ UNCHANGED <<images, new_tag, destination_path, image_queue, tag_queue, push_queue,
                   k, image_path, item, image_tag,
                   loadLog, tagLog, sentinels, parserVars>>

PushWorker == PushGet \/ PushSentinel \/ PushOk \/ PushFail

Next == Driver \/ LoadWorker \/ TagWorker \/ PushWorker

Spec == Init /\ [][Next]_vars

\* the threads are scheduled fairly and every docker call returns or fails
FairSpec ==
    /\ Spec
    /\ WF_vars(Driver) /\ WF_vars(LoadWorker) /\ WF_vars(TagWorker) /\ WF_vars(PushWorker)

TypeOK ==
    /\ pc.main \in {"start", "put", "put_none", "join", "returned"}
    /\ \A t \in {"load", "tag", "push"} :
           pc[t] \in {"unstarted", "get", "sentinel", "run", "done", "crashed"}
    /\ \A q \in {"image", "tag", "push"} : unfinished_tasks[q] >= 0

\* ------------------------------------------------- the parser on its own
Strings == UNION {[1..n -> Chars] : n \in 0..MaxLen}

ParserInit ==
    /\ PipeInit /\ images = <<>>
    /\ raw \in Strings
    /\ container = DockerContainer(<<>>) /\ rendered = <<>>
    /\ reparsed = DockerContainer(<<>>)
    /\ ppc = "new"

\* c = DockerContainer(raw)
Construct ==
    /\ ppc = "new"
    /\ container' = DockerContainer(raw)
    /\ ppc' = IF container'.raised = "none" THEN "constructed" ELSE "raised"
    /\ UNCHANGED <<raw, rendered, reparsed, pipeVars>>

\* c.full_name
FullName ==
    /\ ppc = "constructed"
    /\ rendered' = full_name(container)
    /\ ppc' = "rendered"
    /\ UNCHANGED <<raw, container, reparsed, pipeVars>>

\* DockerContainer(c.full_name)
Reparse ==
    /\ ppc = "rendered"
    /\ reparsed' = DockerContainer(rendered)
    /\ ppc' = "reparsed"
    /\ UNCHANGED <<raw, container, rendered, pipeVars>>

ParserNext == Construct \/ FullName \/ Reparse

ParserSpec == ParserInit /\ [][ParserNext]_vars

\* ------------------------------------------------------------ properties
Range(seq) == {seq[i] : i \in 1..Len(seq)}
IsPrefix(p, q) == Len(p) <= Len(q) /\ SubSeq(q, 1, Len(p)) = p
Workers == {"load", "tag", "push"}
Queues == {"image", "tag", "push"}
Stages == {"load", "parse", "tag", "push"}
AllDropped == UNION {dropped[s] : s \in Stages}
NoFailure == AllDropped = {}
\* the items waiting on the tag and push channels
TagQueued == {tag_queue[i].image_path : i \in 1..Len(tag_queue)} \ {0}
PushQueued == {push_queue[i].image_path : i \in 1..Len(push_queue)} \ {0}

\* C1: under fair scheduling process_images eventually returns, whatever the
\* batch and whatever fails per item in the load, tag and push stages.
C1_Returns == <>(pc.main = "returned")

\* C2: when the reference handed over by the load stage does not parse, the
\* tag worker drops the item and stays in its loop, ready for the next get().
C2_ParseFailureKeepsLoop ==
    [][(pc.tag = "run" /\ DockerContainer(item.image_details).raised # "none"
            /\ pc'.tag # "run")
        => (pc'.tag = "get" /\ item.image_path \in dropped'.parse)]_vars

\* C3: while nothing has failed, the push invocations follow the submission
\* order, one per item, and when the driver returns every item was pushed.
C3_NoFailureOrder ==
    NoFailure =>
        /\ IsPrefix(pushLog, images)
        /\ (pc.main = "returned" => pushLog = images)

C3_Witness ==
    /\ NoFailure /\ pc.main = "returned"
    /\ Len(images) >= 2 /\ pushLog = images

\* C4: an item dropped by the load stage is never queued for, held by or
\* handled by the tag and push stages; an item dropped by the tag stage is
\* never queued for, held by or handled by the push stage.
C4_DroppedStaysDropped ==
    /\ \A i \in dropped.load :
           /\ i \notin TagQueued /\ i \notin PushQueued
           /\ item.image_path # i /\ image_tag.image_path # i
           /\ i \notin Range(tagLog) /\ i \notin Range(pushLog)
    /\ \A i \in dropped.tag \cup dropped.parse :
           /\ i \notin PushQueued
           /\ image_tag.image_path # i
           /\ i \notin Range(pushLog)

C4_Witness ==
    /\ dropped.load # {} /\ dropped.tag # {}
    /\ pushLog # <<>> /\ pc.push = "done"

\* C5: under fair scheduling every submitted item is eventually either pushed
\* or dropped because one of its own actions failed: another item's failure
\* never keeps it from going through the stages.
C5_OthersComplete ==
    \A i \in 1..MaxImages :
        (i \in Range(images)) ~> (i \in Range(pushLog) \/ i \in AllDropped)

\* C6: never more than one sentinel is put on a channel, and under fair
\* scheduling each channel gets its sentinel and each worker leaves its loop.
C6_OneSentinelEach ==
    /\ [](\A q \in Queues : sentinels[q] <= 1)
    /\ <>(/\ \A q \in Queues : sentinels[q] = 1
          /\ \A t \in Workers : pc[t] = "done")

\* C7: the tag worker has not ended before the load worker forwarded its
\* sentinel, nor the push worker before the tag worker forwarded its own.
C7_TerminationOrder ==
    /\ Ended("tag") => sentinels.tag = 1
    /\ Ended("push") => sentinels.push = 1

\* C8: when process_images has returned, the three workers have ended, no
\* worker holds an item and the three channels are empty.
C8_ReturnsDrained ==
    pc.main = "returned" =>
        /\ \A t \in Workers : Ended(t)
        /\ image_queue = <<>> /\ tag_queue = <<>> /\ push_queue = <<>>

C8_Witness ==
    /\ pc.main = "returned"
    /\ pushLog # <<>> /\ AllDropped # {}

\* position of the last "/" of s (0 when there is none) and of the first
\* (Len(s) + 1 when there is none)
LastSlash(s) ==
    IF Contains(s, "/") THEN CHOOSE i \in 1..Len(s) :
                                 s[i] = "/" /\ \A j \in (i + 1)..Len(s) : s[j] # "/"
    ELSE 0
FirstSlash(s) ==
    IF Contains(s, "/") THEN CHOOSE i \in 1..Len(s) :
                                 s[i] = "/" /\ \A j \in 1..(i - 1) : s[j] # "/"
    ELSE Len(s) + 1
\* the colons after the last "/"
LastColons(s) == {i \in (LastSlash(s) + 1)..Len(s) : s[i] = ":"}
\* s[lo..hi], empty when the range is
Between(s, lo, hi) == IF lo <= hi THEN SubSeq(s, lo, hi) ELSE <<>>

C9_WitnessRejected ==
    /\ ppc = "raised"
    /\ Cardinality(LastColons(raw)) >= 2

C10_WitnessDefault ==
    /\ ppc = "constructed"
    /\ container.hostname = DEFAULT_HOSTNAME /\ Contains(raw, "/")
    /\ Contains(container.path, "/")

\* a occurs in b as a contiguous run of characters
IsSubstring(a, b) ==
    \E i \in 0..(Len(b) - Len(a)) : Between(b, i + 1, i + Len(a)) = a
\* the text before the first "/"
FirstComponent(s) == Between(s, 1, FirstSlash(s) - 1)
Accepted == ppc \in {"constructed", "rendered", "reparsed"}
Rendered == ppc \in {"rendered", "reparsed"}

\* C11: when the accepted input's first component holds a ".", full_name is
\* the input, character for character.
C11_FullNameIsInput ==
    (Rendered /\ Contains(FirstComponent(raw), ".")) => rendered = raw

\* C12: full_name of an accepted input parses, and to the same hostname,
\* path, name and tag as the input.
C12_Idempotent ==
    ppc = "reparsed" =>
        /\ reparsed.raised = "none"
        /\ reparsed.hostname = container.hostname
        /\ reparsed.path = container.path
        /\ reparsed.container_name = container.container_name
        /\ reparsed.tag = container.tag

C12_Witness ==
    /\ ppc = "reparsed"
    /\ rendered # raw
    /\ Contains(container.path, "/") /\ Contains(container.path, "a")
    /\ reparsed.path = container.path

\* C13: an accepted input has a non-empty name and a non-empty tag.
C13_NameAndTagNonEmpty ==
    Accepted => (container.container_name # <<>> /\ container.tag # <<>>)

\* C14: the message of a ParsingError holds the raw input that was rejected.
C14_MessageCarriesRaw ==
    ppc = "raised" => IsSubstring(raw, container.message)

\* C19: an accepted input without "/" gets the hostname docker.io and the
\* empty path, and its hostname does not hold the name:tag text.
C19_BareNameDefaultHost ==
    (Accepted /\ ~Contains(raw, "/")) =>
        /\ container.hostname = DEFAULT_HOSTNAME
        /\ container.path = <<>>
        /\ ~IsSubstring(raw, container.hostname)

\* the items waiting on the load channel
ImageQueued == Range(image_queue) \ {None}
\* a worker has taken its sentinel
SawSentinel(t) == pc[t] \in {"sentinel", "done"}
\* the sentinel, when queued, is the last element of the channel
SentinelLast ==
    /\ \A i \in 1..Len(image_queue) : image_queue[i] = None => i = Len(image_queue)
    /\ \A i \in 1..Len(tag_queue) : tag_queue[i] = NoneItem => i = Len(tag_queue)
    /\ \A i \in 1..Len(push_queue) : push_queue[i] = NoneTag => i = Len(push_queue)
\* a worker that took its sentinel has an empty inbound channel and has
\* handled every item that was sent to its stage
DrainedBeforeSentinel ==
    /\ SawSentinel("load") =>
           image_queue = <<>> /\ Len(loadLog) = Len(images)
    /\ SawSentinel("tag") =>
           /\ tag_queue = <<>>
           /\ Len(tagLog) + Cardinality(dropped.parse)
                  = Len(loadLog) - Cardinality(dropped.load)
    /\ SawSentinel("push") =>
           /\ push_queue = <<>>
           /\ Len(pushLog) = Len(tagLog) - Cardinality(dropped.tag)
\* nothing is put on a channel after its sentinel, and a worker that took its
\* sentinel invokes no docker action
NothingAfterSentinel ==
    /\ sentinels.image = 1 => Len(image_queue') <= Len(image_queue)
    /\ sentinels.tag = 1 => Len(tag_queue') <= Len(tag_queue)
    /\ sentinels.push = 1 => Len(push_queue') <= Len(push_queue)
    /\ SawSentinel("load") => loadLog' = loadLog
    /\ SawSentinel("tag") => tagLog' = tagLog
    /\ SawSentinel("push") => pushLog' = pushLog

\* C15: on every channel the sentinel is the last element ever put; a worker
\* takes its sentinel only after handling every item sent to its stage, and
\* from then on it invokes no action and its inbound channel stays empty.
C15_SentinelIsLast ==
    /\ [](SentinelLast /\ DrainedBeforeSentinel)
    /\ [][NothingAfterSentinel]_vars

C15_Witness ==
    /\ pc.tag = "sentinel" /\ pc.load = "done" /\ pc.push = "run"
    /\ Len(tagLog) >= 2 /\ AllDropped # {}

RECURSIVE IsSubseq(_, _)
IsSubseq(a, b) ==
    IF a = <<>> THEN TRUE
    ELSE IF b = <<>> THEN FALSE
    ELSE IF Head(a) = Head(b) THEN IsSubseq(Tail(a), Tail(b))
    ELSE IsSubseq(a, Tail(b))

\* C16: whatever fails, the items docker push was invoked for, and the items
\* docker tag was invoked for, are in submission order.
C16_SurvivorsKeepOrder ==
    /\ IsSubseq(pushLog, images)
    /\ IsSubseq(tagLog, images)

C16_Witness ==
    /\ Len(images) >= 3
    /\ pushLog = <<images[1], images[3]>>
    /\ images[2] \in AllDropped

Count(q, i) == Cardinality({j \in 1..Len(q) : q[j] = i})
\* the number of channel slots and workers that hold item i
Places(i) ==
    Count(image_queue, i)
    + Count([j \in 1..Len(tag_queue) |-> tag_queue[j].image_path], i)
    + Count([j \in 1..Len(push_queue) |-> push_queue[j].image_path], i)
    + (IF pc.load = "run" /\ image_path = i THEN 1 ELSE 0)
    + (IF pc.tag = "run" /\ item.image_path = i THEN 1 ELSE 0)
    + (IF pc.push = "run" /\ image_tag.image_path = i THEN 1 ELSE 0)
\* the driver has put images[j] on the load channel
Submitted(j) ==
    \/ pc.main \in {"put_none", "join", "returned"}
    \/ pc.main = "put" /\ j < k
\* the item was dropped or docker push was invoked for it
Finished(i) == i \in AllDropped \/ i \in Range(pushLog)

\* C17: every item of the batch is in exactly one place: not yet submitted,
\* on one channel, held by one worker, or finished (dropped or pushed).
C17_OnePlace ==
    \A j \in 1..Len(images) :
        /\ Places(images[j]) <= 1
        /\ (IF Submitted(j) THEN 0 ELSE 1) + Places(images[j])
               + (IF Finished(images[j]) THEN 1 ELSE 0) = 1

C17_Witness ==
    /\ Len(images) >= 3
    /\ pc.tag = "run" /\ item.image_path = images[2]
    /\ images[1] \in PushQueued
    /\ images[3] \in ImageQueued

NoDuplicates(log) == \A i, j \in 1..Len(log) : log[i] = log[j] => i = j

\* C18: docker load, docker tag and docker push are each invoked at most once
\* per item, and a dropped item is on no channel and held by no worker.
C18_AtMostOnce ==
    /\ NoDuplicates(loadLog) /\ NoDuplicates(tagLog) /\ NoDuplicates(pushLog)
    /\ \A j \in 1..Len(images) :
           images[j] \in AllDropped => Places(images[j]) = 0

C18_Witness ==
    /\ dropped.load # {} /\ dropped.tag # {} /\ dropped.push # {}
    /\ pc.main = "returned"

====
